---- MODULE Spec2Model ----
(***************************************************************************)
(* Model of ec2-by-name: the resolution-and-aggregation engine of          *)
(* src/ec2.rs (find_instances_then and everything below it) together with  *)
(* the second copy of the orchestrator in src/main.rs.                     *)
(*                                                                         *)
(* The engine is a tree of lazy futures polled from one task.  A future    *)
(* makes progress only when its parent polls it; FuturesOrdered polls all  *)
(* its children, buffers the outputs and hands them to the `while let`     *)
(* loop in the order the children were pushed.  One step of the model is   *)
(* one completed suspension point (resolver construction, DNS lookup, page *)
(* fetch, continuation), followed by everything the code runs without      *)
(* suspending again: the loops of the parents up to the orchestrator.      *)
(***************************************************************************)
EXTENDS Integers, Sequences, FiniteSets, Bags, TLC

\* ------------------------------------------------------------------------
\* Bounds of the model
\* ------------------------------------------------------------------------
\* Longest list of host names given on the command line.
MaxNames == 2
\* Largest number of pages of a query in SpecPages.
MaxPages == 2
\* Largest number of state changes in a lifecycle response.
MaxChanges == 2
\* Last instant of the clock, and longest duration or latest time an option
\* names, both in clock units.
MaxClock == 2
MaxSpan == 2

\* ------------------------------------------------------------------------
\* The environment: hosts, DNS answers, inventory contents
\* ------------------------------------------------------------------------
\* Instance identifiers are strings; a string is modelled as the sequence of
\* its characters so that the lexicographic order of Vec<String>::sort can
\* be computed.  I1 = "i-1", I10 = "i-10", I2 = "i-2": I1 < I10 < I2.
I1 == <<1>>
I10 == <<1, 0>>
I2 == <<2>>
InstanceIds == {I1, I10, I2}

V4(text) == [family |-> "V4", text |-> text]
V6(text) == [family |-> "V6", text |-> text]
X4 == V4("192.0.2.1")
X6 == V6("2001:db8::1")
Y6 == V6("2001:db8::2")

\* Host names the operator may give.
Hosts == {"a", "b", "c", "d"}

\* Answer of a successful DNS lookup: the addresses of the host, in order.
\*   a: one IPv4 address; b: two IPv6 addresses; c: no address at all;
\*   d: one of the addresses of b.
DnsAnswer(host) ==
    CASE host = "a" -> <<X4>>
      [] host = "b" -> <<X6, Y6>>
      [] host = "d" -> <<Y6>>
      [] OTHER -> <<>>

\* Option<T>: None, or Some(v).  The payload of None is never read.
None == [some |-> FALSE, val |-> <<>>]
Some(v) == [some |-> TRUE, val |-> v]

\* A DescribeInstancesOutput page holding one reservation with the given
\* instance ids, all fields present.
PageOf(ids) == [reservations |-> Some(<< [instances |-> Some([n \in 1..Len(ids) |->
                    [instance_id |-> Some(ids[n])]])] >>)]
\* A page of a query that matches nothing.
EmptyPage == [reservations |-> Some(<<>>)]

\* Ec2Filter::builder().name(..).values(..).build()
Ec2Filter(name, value) == [name |-> name, value |-> value]

\* The contents of the account the engine is run against in Spec, as the
\* pages of the queries that match something.  X4 is the public address of
\* i-2 and the private address of i-10; i-10 is also reachable through X6,
\* and the X6 query needs two pages.
FixedInventory ==
    (Ec2Filter("ip-address", X4.text) :> << PageOf(<<I2>>) >>)
    @@ (Ec2Filter("private-ip-address", X4.text) :> << PageOf(<<I10>>) >>)
    @@ (Ec2Filter("network-interface.addresses.private-ip-address", X4.text)
            :> << PageOf(<<I10>>) >>)
    @@ (Ec2Filter("network-interface.ipv6-addresses.ipv6-address", X6.text)
            :> << PageOf(<<I10>>), PageOf(<<I1>>) >>)
    @@ (Ec2Filter("network-interface.ipv6-addresses.ipv6-address", Y6.text)
            :> << PageOf(<<I1>>) >>)

\* The inventory: for every filter that matches something, the pages its
\* paged query yields when no fetch fails.  It does not change during a run.
VARIABLE inventory

\* Pages a paged describe-instances query returns when no fetch fails; a
\* query that matches nothing returns one page without reservations.
InventoryPages(filter) ==
    IF filter \in DOMAIN inventory THEN inventory[filter] ELSE << EmptyPage >>

\* ------------------------------------------------------------------------
\* Result<HashSet<String>, Error> and the state of a future
\* ------------------------------------------------------------------------
NoError == [kind |-> "none", name |-> 0, addr |-> 0, strat |-> 0, page |-> 0]
\* ResolveError raised while building the resolver / while looking a name up.
ConfError(i) == [kind |-> "resolver_conf", name |-> i, addr |-> 0, strat |-> 0, page |-> 0]
LookupError(i) == [kind |-> "lookup_ip", name |-> i, addr |-> 0, strat |-> 0, page |-> 0]
\* SdkError<DescribeInstancesError> of the fetch of page p by strategy k
\* for address j of name i.
QueryError(i, j, k, p) == [kind |-> "describe_instances", name |-> i, addr |-> j, strat |-> k, page |-> p]
\* The SdkError<DescribeInstancesError> the paginator yields for that fetch,
\* before `?` converts it.
DescribeInstancesSdkError(i, j, k, p) ==
    [kind |-> "SdkError<DescribeInstancesError>", name |-> i, addr |-> j, strat |-> k, page |-> p]
\* impl From<SdkError<DescribeInstancesError>> for Error: the SdkError is
\* kept as the payload of Error::SdkError(Ec2SdkError::DescribeInstancesError).
FromSdkError(e) == [e EXCEPT !.kind = "describe_instances"]

Pending == [tag |-> "Pending", ids |-> {}, err |-> NoError]
Ok(ids) == [tag |-> "Ok", ids |-> ids, err |-> NoError]
Err(e) == [tag |-> "Err", ids |-> {}, err |-> e]

\* ------------------------------------------------------------------------
\* Sorting (Vec<String>::sort)
\* ------------------------------------------------------------------------
\* s < t for strings: the first differing character decides, a proper
\* prefix is smaller.
RECURSIVE LexLess(_, _)
LexLess(s, t) ==
    IF t = <<>> THEN FALSE
    ELSE IF s = <<>> THEN TRUE
    ELSE IF Head(s) # Head(t) THEN Head(s) < Head(t)
    ELSE LexLess(Tail(s), Tail(t))

\* Variant: shorter strings first, as a numeric order of the ids would give.
RECURSIVE SortedVecByLength(_)
SortedVecByLength(S) ==
    IF S = {} THEN <<>>
    ELSE LET m == CHOOSE x \in S : \A y \in S \ {x} :
                    Len(x) < Len(y) \/ (Len(x) = Len(y) /\ LexLess(x, y))
         IN  <<m>> \o SortedVecByLength(S \ {m})

\* The elements of a set as a vector in ascending order.
RECURSIVE SortedVec(_)
SortedVec(S) ==
    IF S = {} THEN <<>>
    ELSE LET m == CHOOSE x \in S : \A y \in S \ {x} : LexLess(x, y)
         IN  <<m>> \o SortedVec(S \ {m})

\* ------------------------------------------------------------------------
\* Pagination Collector and Filter Strategies
\* ------------------------------------------------------------------------
NoFilter == Ec2Filter("", "")

\* A strategy future that returned at its first poll, without a query.
Returned(out) ==
    [st |-> "done", filter |-> NoFilter, page |-> 0, results |-> {}, out |-> out]

\* get_instance_ids_by_filter at its first poll: the result set is empty, the
\* paginator is built and the fetch of page 1 is in flight.
get_instance_ids_by_filter(filter) ==
    [st |-> "inflight", filter |-> filter, page |-> 1, results |-> {}, out |-> Pending]

\* Variant: an instance without id is inserted as the empty string.
PageInstanceIdsEmptyId(page) ==
    LET reservations == IF page.reservations.some THEN page.reservations.val ELSE <<>>
        InstancesOf(r) == IF r.instances.some THEN r.instances.val ELSE <<>>
        IdsOf(instances) ==
            { IF instances[n].instance_id.some THEN instances[n].instance_id.val ELSE <<>> :
                n \in DOMAIN instances }
    IN  UNION { IdsOf(InstancesOf(reservations[r])) : r \in DOMAIN reservations }

\* The instance ids one page adds to the result set: absent reservation
\* lists, absent instance lists and absent ids add nothing.
PageInstanceIds(page) ==
    LET reservations == IF page.reservations.some THEN page.reservations.val ELSE <<>>
        InstancesOf(r) == IF r.instances.some THEN r.instances.val ELSE <<>>
        IdsOf(instances) ==
            { instances[n].instance_id.val :
                n \in { m \in DOMAIN instances : instances[m].instance_id.some } }
    IN  UNION { IdsOf(InstancesOf(reservations[r])) : r \in DOMAIN reservations }

\* Variant: `if let` for `while let`, the set is returned after one page.
StreamNextFirstPage(f, fetched, error) ==
    IF ~fetched
    THEN [f EXCEPT !.st = "done", !.results = {}, !.out = Err(FromSdkError(error))]
    ELSE LET results == f.results \cup PageInstanceIds(InventoryPages(f.filter)[f.page])
         IN  [f EXCEPT !.st = "done", !.results = results, !.out = Ok(results)]

\* Variant: a failed fetch ends the stream, what was collected is returned.
StreamNextPartial(f, fetched, error) ==
    IF ~fetched
    THEN [f EXCEPT !.st = "done", !.out = Ok(f.results)]
    ELSE LET pages == InventoryPages(f.filter)
             results == f.results \cup PageInstanceIds(pages[f.page])
         IN  IF f.page < Len(pages)
             THEN [f EXCEPT !.page = @ + 1, !.results = results]
             ELSE [f EXCEPT !.st = "done", !.results = results, !.out = Ok(results)]

\* One turn of `while let Some(r) = stream.next().await` of a collector f
\* whose page fetch completed: a failed fetch returns the error and nothing
\* else; a fetched page is merged, and after the last page the stream ends
\* and the set is returned.
StreamNext(f, fetched, error) ==
    IF ~fetched
    THEN [f EXCEPT !.st = "done", !.results = {}, !.out = Err(FromSdkError(error))]
    ELSE LET pages == InventoryPages(f.filter)
             results == f.results \cup PageInstanceIds(pages[f.page])
         IN  IF f.page < Len(pages)
             THEN [f EXCEPT !.page = @ + 1, !.results = results]
             ELSE [f EXCEPT !.st = "done", !.results = results, !.out = Ok(results)]

find_instances_by_public_ipv4(address) ==
    IF address.family = "V4"
    THEN get_instance_ids_by_filter(Ec2Filter("ip-address", address.text))
    ELSE Returned(Ok({}))

find_instances_by_public_eip_ipv4(address) ==
    IF address.family = "V4"
    THEN get_instance_ids_by_filter(
            Ec2Filter("network-interface.addresses.association.public-ip", address.text))
    ELSE Returned(Ok({}))

find_instances_by_private_ipv4(address) ==
    IF address.family = "V4"
    THEN get_instance_ids_by_filter(Ec2Filter("private-ip-address", address.text))
    ELSE Returned(Ok({}))

find_instances_by_private_netif_ipv4(address) ==
    IF address.family = "V4"
    THEN get_instance_ids_by_filter(
            Ec2Filter("network-interface.addresses.private-ip-address", address.text))
    ELSE Returned(Ok({}))

\* Variant: the address family is not looked at.
find_instances_by_netif_ipv6_any_family(address) ==
    get_instance_ids_by_filter(
        Ec2Filter("network-interface.ipv6-addresses.ipv6-address", address.text))

find_instances_by_netif_ipv6(address) ==
    IF address.family = "V4"
    THEN Returned(Ok({}))
    ELSE get_instance_ids_by_filter(
            Ec2Filter("network-interface.ipv6-addresses.ipv6-address", address.text))

\* A future that is dropped before it completed never runs again; so do
\* the futures it owns.
DropStrategy(f) == IF f.st = "inflight" THEN [f EXCEPT !.st = "dropped"] ELSE f

\* ------------------------------------------------------------------------
\* Per-Address Resolver
\* ------------------------------------------------------------------------
\* The five strategy futures in the order they are pushed.
StrategyFutures(address) ==
    << find_instances_by_public_ipv4(address),
       find_instances_by_public_eip_ipv4(address),
       find_instances_by_private_ipv4(address),
       find_instances_by_private_netif_ipv4(address),
       find_instances_by_netif_ipv6(address) >>

\* Variant: the loop ends as soon as some strategy has found an instance.
RECURSIVE ByIpLoopStopAtMatch(_)
ByIpLoopStopAtMatch(b) ==
    IF b.next > Len(b.futures) \/ b.all_instance_ids # {}
    THEN [b EXCEPT !.st = "done", !.out = Ok(b.all_instance_ids),
                   !.futures = [k \in DOMAIN @ |-> DropStrategy(@[k])]]
    ELSE LET result == b.futures[b.next].out
         IN  CASE result.tag = "Pending" -> b
               [] result.tag = "Ok" ->
                    ByIpLoopStopAtMatch(
                        [b EXCEPT !.all_instance_ids = @ \cup result.ids, !.next = @ + 1])
               [] OTHER ->
                    [b EXCEPT !.st = "done", !.out = result,
                              !.futures = [k \in DOMAIN @ |-> DropStrategy(@[k])]]

\* Variant: when the loop meets an Err, the error it returns is the one of
\* the strategy that failed first in time.
RECURSIVE ByIpLoopCompletionOrder(_)
ByIpLoopCompletionOrder(b) ==
    IF b.next > Len(b.futures)
    THEN [b EXCEPT !.st = "done", !.out = Ok(b.all_instance_ids)]
    ELSE LET result == b.futures[b.next].out
         IN  CASE result.tag = "Pending" -> b
               [] result.tag = "Ok" ->
                    ByIpLoopCompletionOrder(
                        [b EXCEPT !.all_instance_ids = @ \cup result.ids, !.next = @ + 1])
               [] OTHER ->
                    [b EXCEPT !.st = "done", !.out = b.futures[b.first_failed].out,
                              !.futures = [k \in DOMAIN @ |-> DropStrategy(@[k])]]

\* Variant: an Err does not end the loop; the first one in the queue is
\* returned after all five outputs were taken.
RECURSIVE ByIpLoopDrainAll(_)
ByIpLoopDrainAll(b) ==
    IF b.next > Len(b.futures)
    THEN LET failed == { k \in DOMAIN b.futures : b.futures[k].out.tag = "Err" }
         IN  IF failed = {}
             THEN [b EXCEPT !.st = "done", !.out = Ok(b.all_instance_ids)]
             ELSE [b EXCEPT !.st = "done",
                            !.out = b.futures[CHOOSE k \in failed :
                                                \A l \in failed : k <= l].out]
    ELSE LET result == b.futures[b.next].out
         IN  IF result.tag = "Pending" THEN b
             ELSE ByIpLoopDrainAll(
                    [b EXCEPT !.all_instance_ids = @ \cup result.ids, !.next = @ + 1])

\* `while let Some(result) = futures.next().await` of find_instances_by_ip:
\* FuturesOrdered yields the output of the future at the head of the queue
\* once it is there; Ok is merged and the loop goes on, Err is returned at
\* once and the futures still in the queue are dropped with it.
RECURSIVE ByIpLoop(_)
ByIpLoop(b) ==
    IF b.next > Len(b.futures)
    THEN [b EXCEPT !.st = "done", !.out = Ok(b.all_instance_ids)]
    ELSE LET result == b.futures[b.next].out
         IN  CASE result.tag = "Pending" -> b
               [] result.tag = "Ok" ->
                    ByIpLoop([b EXCEPT !.all_instance_ids = @ \cup result.ids,
                                       !.next = @ + 1])
               [] OTHER ->
                    [b EXCEPT !.st = "done", !.out = result,
                              !.futures = [k \in DOMAIN @ |-> DropStrategy(@[k])]]

\* find_instances_by_ip at its first poll: the five strategies are pushed
\* and polled; those that do not apply to the address have returned.
\* first_failed is a history field: the strategy that was the first, in
\* time, to complete with an error (0: none so far).
find_instances_by_ip(address) ==
    ByIpLoop([st |-> "running", address |-> address,
              futures |-> StrategyFutures(address), next |-> 1,
              all_instance_ids |-> {}, out |-> Pending, first_failed |-> 0])

\* The page fetch of strategy k of resolver b completed.
ByIpPoll(b, k, fetched, error) ==
    ByIpLoop([b EXCEPT !.futures[k] = StreamNext(@, fetched, error),
                       !.first_failed = IF @ = 0 /\ ~fetched THEN k ELSE @])

DropByIp(b) ==
    IF b.st = "running"
    THEN [b EXCEPT !.st = "dropped",
                   !.futures = [k \in DOMAIN @ |-> DropStrategy(@[k])]]
    ELSE b

\* ------------------------------------------------------------------------
\* Per-Name Resolver
\* ------------------------------------------------------------------------
\* Variant: the output of a failed address is skipped instead of returned.
RECURSIVE FindInstancesLoopSkipErr(_)
FindInstancesLoopSkipErr(f) ==
    IF f.next > Len(f.futures)
    THEN [f EXCEPT !.st = "done", !.out = Ok(f.all_instance_ids)]
    ELSE LET result == f.futures[f.next].out
         IN  IF result.tag = "Pending" THEN f
             ELSE FindInstancesLoopSkipErr(
                    [f EXCEPT !.all_instance_ids = @ \cup result.ids, !.next = @ + 1])

\* `while let Some(result) = futures.next().await { let result = result?; .. }`
\* of find_instances.
RECURSIVE FindInstancesLoop(_)
FindInstancesLoop(f) ==
    IF f.next > Len(f.futures)
    THEN [f EXCEPT !.st = "done", !.out = Ok(f.all_instance_ids)]
    ELSE LET result == f.futures[f.next].out
         IN  CASE result.tag = "Pending" -> f
               [] result.tag = "Ok" ->
                    FindInstancesLoop([f EXCEPT !.all_instance_ids = @ \cup result.ids,
                                                !.next = @ + 1])
               [] OTHER ->
                    [f EXCEPT !.st = "done", !.out = result,
                              !.futures = [j \in DOMAIN @ |-> DropByIp(@[j])]]

\* find_instances at its first poll: resolver_from_system_conf() is awaited.
find_instances(name) ==
    [st |-> "conf", name |-> name, futures |-> <<>>, next |-> 1,
     all_instance_ids |-> {}, out |-> Pending]

\* resolver_from_system_conf() completed: `?` returns its error, otherwise
\* lookup_ip(name) is awaited.
ResolverReady(f, i, ok) ==
    IF ok THEN [f EXCEPT !.st = "lookup"]
    ELSE [f EXCEPT !.st = "done", !.out = Err(ConfError(i))]

\* Variant: a failed lookup counts as an answer without addresses.
LookupDoneOrEmpty(f, i, ok) ==
    LET ips == IF ok THEN DnsAnswer(f.name) ELSE <<>>
    IN  FindInstancesLoop([f EXCEPT !.st = "running",
            !.futures = [j \in DOMAIN ips |-> find_instances_by_ip(ips[j])]])

\* lookup_ip(name) completed: `?` returns its error, otherwise one
\* find_instances_by_ip per address is pushed and the loop is entered.
LookupDone(f, i, ok) ==
    IF ok
    THEN LET ips == DnsAnswer(f.name)
         IN  FindInstancesLoop([f EXCEPT !.st = "running",
                !.futures = [j \in DOMAIN ips |-> find_instances_by_ip(ips[j])]])
    ELSE [f EXCEPT !.st = "done", !.out = Err(LookupError(i))]

\* The page fetch of strategy k of address j completed.
FindInstancesPoll(f, j, k, fetched, error) ==
    FindInstancesLoop([f EXCEPT !.futures[j] = ByIpPoll(@, k, fetched, error)])

DropFindInstances(f) ==
    IF f.st \in {"conf", "lookup", "running"}
    THEN [f EXCEPT !.st = "dropped",
                   !.futures = [j \in DOMAIN @ |-> DropByIp(@[j])]]
    ELSE f

\* ------------------------------------------------------------------------
\* Resolution Orchestrator
\* ------------------------------------------------------------------------
\* The locals of find_instances_then while it drains its queue.  phase is
\* "draining" while the loop waits for the future at the head of the queue,
\* "drained" when futures.next() returned None, "failed" when the loop was
\* left by `return`.
Orchestrator(futures) ==
    [futures |-> futures, next |-> 1, all_instance_ids |-> {},
     first_error |-> NoError, phase |-> "draining"]

\* Variant: the loop is left at the first Err it takes, as a `?` would do.
RECURSIVE find_instances_then_fail_fast(_)
find_instances_then_fail_fast(o) ==
    IF o.next > Len(o.futures)
    THEN [o EXCEPT !.phase = "drained"]
    ELSE LET result == o.futures[o.next].out
         IN  CASE result.tag = "Pending" -> o
               [] result.tag = "Ok" ->
                    find_instances_then_fail_fast(
                        [o EXCEPT !.all_instance_ids = @ \cup result.ids, !.next = @ + 1])
               [] OTHER ->
                    [o EXCEPT !.first_error = result.err, !.phase = "failed",
                              !.futures = [i \in DOMAIN @ |-> DropFindInstances(@[i])]]

\* Variant: an Err is logged and then forgotten.
RECURSIVE find_instances_then_ignore_err(_)
find_instances_then_ignore_err(o) ==
    IF o.next > Len(o.futures)
    THEN [o EXCEPT !.phase = "drained"]
    ELSE LET result == o.futures[o.next].out
         IN  CASE result.tag = "Pending" -> o
               [] OTHER ->
                    find_instances_then_ignore_err(
                        [o EXCEPT !.all_instance_ids = @ \cup result.ids, !.next = @ + 1])

\* Variant: an empty list of names is refused.
RECURSIVE find_instances_then_refuse_empty(_)
find_instances_then_refuse_empty(o) ==
    IF o.futures = <<>>
    THEN [o EXCEPT !.phase = "failed"]
    ELSE IF o.next > Len(o.futures)
    THEN [o EXCEPT !.phase = "drained"]
    ELSE LET result == o.futures[o.next].out
         IN  CASE result.tag = "Pending" -> o
               [] result.tag = "Ok" ->
                    find_instances_then_refuse_empty(
                        [o EXCEPT !.all_instance_ids = @ \cup result.ids, !.next = @ + 1])
               [] OTHER ->
                    find_instances_then_refuse_empty(
                        [o EXCEPT !.first_error = IF @ = NoError THEN result.err ELSE @,
                                  !.next = @ + 1])

\* Variant: every Err that is taken replaces the one recorded before.
RECURSIVE find_instances_then_last_err(_)
find_instances_then_last_err(o) ==
    IF o.next > Len(o.futures)
    THEN [o EXCEPT !.phase = "drained"]
    ELSE LET result == o.futures[o.next].out
         IN  CASE result.tag = "Pending" -> o
               [] result.tag = "Ok" ->
                    find_instances_then_last_err(
                        [o EXCEPT !.all_instance_ids = @ \cup result.ids, !.next = @ + 1])
               [] OTHER ->
                    find_instances_then_last_err(
                        [o EXCEPT !.first_error = result.err, !.next = @ + 1])

\* Variant: the loop is left when the future at the head has been merged.
find_instances_then_first_ok(o) ==
    IF o.next > Len(o.futures)
    THEN [o EXCEPT !.phase = "drained"]
    ELSE LET result == o.futures[o.next].out
         IN  CASE result.tag = "Pending" -> o
               [] result.tag = "Ok" ->
                    [o EXCEPT !.all_instance_ids = @ \cup result.ids, !.next = @ + 1,
                              !.phase = "drained"]
               [] OTHER ->
                    [o EXCEPT !.first_error = result.err, !.next = @ + 1,
                              !.phase = "failed"]

\* Variant: the end of the queue is not noticed, the loop waits on.
RECURSIVE find_instances_then_waits_on(_)
find_instances_then_waits_on(o) ==
    IF o.next > Len(o.futures)
    THEN o
    ELSE LET result == o.futures[o.next].out
         IN  CASE result.tag = "Pending" -> o
               [] result.tag = "Ok" ->
                    find_instances_then_waits_on(
                        [o EXCEPT !.all_instance_ids = @ \cup result.ids, !.next = @ + 1])
               [] OTHER ->
                    find_instances_then_waits_on(
                        [o EXCEPT !.first_error = IF @ = NoError THEN result.err ELSE @,
                                  !.next = @ + 1])

\* Variant: an Ok that is taken after an Err clears the recorded error.
RECURSIVE find_instances_then_clear_on_ok(_)
find_instances_then_clear_on_ok(o) ==
    IF o.next > Len(o.futures)
    THEN [o EXCEPT !.phase = "drained"]
    ELSE LET result == o.futures[o.next].out
         IN  CASE result.tag = "Pending" -> o
               [] result.tag = "Ok" ->
                    find_instances_then_clear_on_ok(
                        [o EXCEPT !.all_instance_ids = @ \cup result.ids,
                                  !.first_error = NoError, !.next = @ + 1])
               [] OTHER ->
                    find_instances_then_clear_on_ok(
                        [o EXCEPT !.first_error = IF @ = NoError THEN result.err ELSE @,
                                  !.next = @ + 1])

\* src/ec2.rs: every output is taken; Ok is merged, the first Err is kept.
RECURSIVE find_instances_then(_)
find_instances_then(o) ==
    IF o.next > Len(o.futures)
    THEN [o EXCEPT !.phase = "drained"]
    ELSE LET result == o.futures[o.next].out
         IN  CASE result.tag = "Pending" -> o
               [] result.tag = "Ok" ->
                    find_instances_then([o EXCEPT !.all_instance_ids = @ \cup result.ids,
                                                  !.next = @ + 1])
               [] OTHER ->
                    find_instances_then(
                        [o EXCEPT !.first_error = IF @ = NoError THEN result.err ELSE @,
                                  !.next = @ + 1])

\* Variant: an Err is printed and the loop goes on; the function fails at
\* the end with the error printed last.
RECURSIVE main_find_instances_then_keep_going(_)
main_find_instances_then_keep_going(o) ==
    IF o.next > Len(o.futures)
    THEN [o EXCEPT !.phase = IF o.first_error = NoError THEN "drained" ELSE "failed"]
    ELSE LET result == o.futures[o.next].out
         IN  CASE result.tag = "Pending" -> o
               [] result.tag = "Ok" ->
                    main_find_instances_then_keep_going(
                        [o EXCEPT !.all_instance_ids = @ \cup result.ids, !.next = @ + 1])
               [] OTHER ->
                    main_find_instances_then_keep_going(
                        [o EXCEPT !.first_error = result.err, !.next = @ + 1])

\* src/main.rs: the first Err that is taken is printed and ends the function;
\* the futures still in the queue are dropped.
RECURSIVE main_find_instances_then(_)
main_find_instances_then(o) ==
    IF o.next > Len(o.futures)
    THEN [o EXCEPT !.phase = "drained"]
    ELSE LET result == o.futures[o.next].out
         IN  CASE result.tag = "Pending" -> o
               [] result.tag = "Ok" ->
                    main_find_instances_then([o EXCEPT !.all_instance_ids = @ \cup result.ids,
                                                       !.next = @ + 1])
               [] OTHER ->
                    [o EXCEPT !.first_error = result.err, !.phase = "failed",
                              !.futures = [i \in DOMAIN @ |-> DropFindInstances(@[i])]]

\* ------------------------------------------------------------------------
\* The operations and their continuations
\* ------------------------------------------------------------------------
Ops == {"print", "reboot", "start", "stop", "terminate", "set-no-stop-before"}

\* The request each continuation sends; print sends none.
ApiCallOf(operation) ==
    CASE operation = "reboot" -> "RebootInstances"
      [] operation = "start" -> "StartInstances"
      [] operation = "stop" -> "StopInstances"
      [] operation = "terminate" -> "TerminateInstances"
      [] operation = "set-no-stop-before" -> "CreateTags"
      [] OTHER -> "none"

\* instance_ids.join(" "): the ids with a blank between neighbours.
Join(v) ==
    [n \in 1..(IF v = <<>> THEN 0 ELSE 2 * Len(v) - 1) |->
        IF n % 2 = 1 THEN v[(n + 1) \div 2] ELSE " "]

\* println!(fmt, args..): one line of standard output.
Line(fmt, args) == [fmt |-> fmt, args |-> args]

\* The line a continuation prints first.
Announcement(operation) ==
    CASE operation = "print" -> "{}"
      [] operation = "reboot" -> "Rebooting instances: {}"
      [] operation = "start" -> "Starting instances: {}"
      [] operation = "stop" -> "Stopping instances: {}"
      [] operation = "terminate" -> "Terminating instances: {}"
      [] OTHER -> "Setting NoStopBefore for instances: {}"

\* Option<InstanceStateName>, Option<InstanceState>, InstanceStateChange.
NoName == [some |-> FALSE, val |-> ""]
NoState == [some |-> FALSE, val |-> [name |-> NoName]]
State(name) == Some([name |-> Some(name)])
StateWithoutName == Some([name |-> NoName])
Change(id, previous, current) ==
    [instance_id |-> id, previous_state |-> previous, current_state |-> current]

instance_state_to_string(instance_state) ==
    IF instance_state.some
    THEN IF instance_state.val.name.some THEN instance_state.val.name.val ELSE ""
    ELSE ""

\* Variant: a change that lacks a state is passed over.
print_instance_state_changes_skip(changes) ==
    LET v == IF changes.some THEN changes.val ELSE <<>>
        known == SelectSeq(v, LAMBDA c : c.previous_state.some /\ c.current_state.some)
    IN  [n \in DOMAIN known |->
            Line("{}: {} -> {}",
                 << IF known[n].instance_id.some THEN known[n].instance_id.val ELSE <<>>,
                    instance_state_to_string(known[n].previous_state),
                    instance_state_to_string(known[n].current_state) >>)]

\* The lines print_instance_state_changes prints; the empty string is <<>>
\* where an instance id stands.
print_instance_state_changes(changes) ==
    LET v == IF changes.some THEN changes.val ELSE <<>>
    IN  [n \in DOMAIN v |->
            Line("{}: {} -> {}",
                 << IF v[n].instance_id.some THEN v[n].instance_id.val ELSE <<>>,
                    instance_state_to_string(v[n].previous_state),
                    instance_state_to_string(v[n].current_state) >>)]

\* State changes a lifecycle response may hold: complete ones, one without
\* instance id, one without states, one with a state that has no name.
ChangeShapes ==
    { Change(Some(I1), State("stopped"), State("pending")),
      Change(Some(I2), State("running"), State("running")),
      Change(None, State("running"), State("stopping")),
      Change(Some(I10), NoState, StateWithoutName) }

\* Option<Vec<InstanceStateChange>> of at most n changes.
RECURSIVE ChangeLists(_)
ChangeLists(n) ==
    IF n = 0 THEN { <<>> }
    ELSE ChangeLists(n - 1)
            \cup { Append(s, c) : <<s, c>> \in ChangeLists(n - 1) \X ChangeShapes }
Responses == { None } \cup { Some(v) : v \in ChangeLists(MaxChanges) }

\* getopts::Matches of set-no-stop-before.  An option is absent, or present
\* with a value that parses to a number of clock units, or present with a
\* value that does not parse.
Absent == [present |-> FALSE, valid |-> FALSE, value |-> 0]
Unparsable == [present |-> TRUE, valid |-> FALSE, value |-> 0]
Parsed(value) == [present |-> TRUE, valid |-> TRUE, value |-> value]
OptionValues == { Absent, Unparsable } \cup { Parsed(v) : v \in 0..MaxSpan }
Matches(parse_ok, h, d, t) == [parse_ok |-> parse_ok, h |-> h, d |-> d, t |-> t]
NoMatches == Matches(FALSE, FALSE, Absent, Absent)
\* DateTime<Utc> and chrono's Duration hold a bounded range, the clock and
\* the spans above lie within it; parse_duration accepts durations beyond
\* it (any number of seconds that fits 64 bits), parse_rfc3339_weak no time
\* after the year 9999.
MaxDateTime == MaxClock + MaxSpan
TooLong == MaxDateTime + 1
CommandLines ==
    { NoMatches } \cup { Matches(TRUE, h, d, t) : h \in BOOLEAN,
                                                   d \in OptionValues \cup { Parsed(TooLong) },
                                                   t \in OptionValues }

\* The clock counts half seconds; "%Y-%m-%dT%H:%M:%SZ" prints whole seconds.
\* A formatted time is modelled as the number of the second it names.
UnitsPerSecond == 2
Format(timestamp) == timestamp \div UnitsPerSecond

\* Tag::builder().key(..).value(..).build(); NoTag before a tag is built.
Tag(key, value) == [key |-> key, value |-> value]
NoTag == Tag("", 0)

\* getopts::Matches of main: the options parse or not, -h is given or not,
\* an operation name follows the options or not.
MainMatches(parse_ok, h, free) == [parse_ok |-> parse_ok, h |-> h, free |-> free]
OperationGiven == MainMatches(TRUE, FALSE, TRUE)
MainCommandLines ==
    { MainMatches(FALSE, FALSE, FALSE) }
        \cup { MainMatches(TRUE, h, free) : h, free \in BOOLEAN }

\* std::process::ExitCode of src/main.rs.
SUCCESS == 0
FAILURE == 1
INVALID_USAGE == 2
\* The exit status of a Rust process whose main thread panicked.
PanicStatus == 101
NotExited == [exited |-> FALSE, code |-> 0]
Exited(code) == [exited |-> TRUE, code |-> code]

\* Errors of the command line of an operation.
UsageError(kind) == [kind |-> kind, name |-> 0, addr |-> 0, strat |-> 0, page |-> 0]

\* Error of the call the continuation makes.
ApiError(call) == [kind |-> call, name |-> 0, addr |-> 0, strat |-> 0, page |-> 0]

\* ------------------------------------------------------------------------
\* State
\* ------------------------------------------------------------------------
VARIABLES
    impl,              \* "ec2": find_instances_then of src/ec2.rs; "main": of src/main.rs
    main_matches,      \* src/main.rs: the parsed options of the program
    exit_code,         \* src/main.rs: the ExitCode main returned, NotExited before
    op,                \* the operation that is run
    matches,           \* set-no-stop-before: the parsed options
    now,               \* the clock, in clock units since the epoch
    tag,               \* set-no-stop-before: the tag built before resolution
    names,             \* the host names given, each host at most once
    pc,                \* "idle", "draining", "then" (continuation running), "returned"
    futures,           \* the FuturesOrdered queue of find_instances futures
    next_outgoing,     \* index of the future whose output the queue yields next
    all_instance_ids,  \* HashSet the loop merges into
    first_error,       \* Option<Error>, NoError for None
    result,            \* what find_instances_then returned
    then_calls,        \* the vectors the continuation was invoked with
    lookups,           \* indices of the names lookup_ip was called for
    queries,           \* the paged describe-instances queries that were issued
    first_failed,      \* history: the name whose resolver was the first, in time, to fail
    dns,               \* history: per name, how its DNS resolution ended so far
    fetches,           \* history: bag of the page fetches that were requested
    failed_fetches,    \* history: the page fetches that failed
    api_calls,         \* the lifecycle and tag requests that were sent, in order
    stdout,            \* the lines printed to standard output
    output             \* history: starting/stopping/terminating_instances of the response

\* Error of the call the continuation of the operation makes (reboot, start,
\* stop, terminate, create-tags).
ContinuationError == ApiError(ApiCallOf(op))

\* Variant: when both options are given the duration is used, and when
\* none is given the duration is zero.
DurationOfLenient(m) ==
    CASE ~m.parse_ok -> [err |-> UsageError("getopts::Fail"), duration |-> 0]
      [] m.parse_ok /\ m.h -> [err |-> UsageError("ShowUsage"), duration |-> 0]
      [] m.parse_ok /\ ~m.h /\ m.d.present ->
            IF m.d.valid THEN [err |-> NoError, duration |-> m.d.value]
            ELSE [err |-> UsageError("DurationError"), duration |-> 0]
      [] m.parse_ok /\ ~m.h /\ ~m.d.present /\ m.t.present ->
            IF m.t.valid THEN [err |-> NoError, duration |-> m.t.value]
            ELSE [err |-> UsageError("TimestampError"), duration |-> 0]
      [] OTHER -> [err |-> NoError, duration |-> 0]

\* The checks of set_no_stop_before on its options, in the order of the
\* code, and the duration it goes on with: the parsed --duration, or the
\* parsed --time as the time since the epoch.
DurationOf(m) ==
    CASE ~m.parse_ok -> [err |-> UsageError("getopts::Fail"), duration |-> 0]
      [] m.parse_ok /\ m.h -> [err |-> UsageError("ShowUsage"), duration |-> 0]
      [] m.parse_ok /\ ~m.h /\ m.d.present /\ m.t.present ->
            [err |-> UsageError("InvalidUsage"), duration |-> 0]
      [] m.parse_ok /\ ~m.h /\ m.d.present /\ ~m.t.present ->
            IF m.d.valid THEN [err |-> NoError, duration |-> m.d.value]
            ELSE [err |-> UsageError("DurationError"), duration |-> 0]
      [] m.parse_ok /\ ~m.h /\ ~m.d.present /\ m.t.present ->
            IF m.t.valid THEN [err |-> NoError, duration |-> m.t.value]
            ELSE [err |-> UsageError("TimestampError"), duration |-> 0]
      [] OTHER -> [err |-> UsageError("InvalidUsage"), duration |-> 0]

\* Utc::now() + duration, for --duration and for --time alike.
Timestamp(duration) == now + duration

\* Duration::from_std(duration).expect(..) and Utc::now() + duration panic
\* when the duration or the sum is out of range.
Representable(duration) == now + duration <= MaxDateTime
Panicked == [tag |-> "Panic", ids |-> {}, err |-> NoError]

\* A `return` of src/main.rs with an ExitCode; the functions of src/ops
\* return a Result and no exit code.
ExitWith(code) == exit_code' = IF impl = "main" THEN Exited(code) ELSE exit_code

vars == <<impl, main_matches, exit_code, op, matches, now, tag, names, pc, futures, next_outgoing, all_instance_ids, first_error,
          result, then_calls, lookups, queries, first_failed, dns, fetches,
          failed_fetches, api_calls, stdout, output, inventory>>

\* The lists of at most n different elements of S.
RECURSIVE SeqsUpTo(_, _)
SeqsUpTo(S, n) ==
    IF n = 0 THEN { <<>> }
    ELSE LET shorter == SeqsUpTo(S, n - 1)
         IN  shorter \cup { Append(s, x) : <<s, x>> \in
                                { <<s, x>> \in shorter \X S :
                                    \A m \in DOMAIN s : s[m] # x } }

\* Nothing has been dispatched, sent, printed or returned.
Fresh ==
    /\ exit_code = NotExited
    /\ futures = <<>>
    /\ next_outgoing = 1
    /\ all_instance_ids = {}
    /\ first_error = NoError
    /\ result = Pending
    /\ then_calls = <<>>
    /\ lookups = {}
    /\ queries = {}
    /\ first_failed = 0
    /\ dns = [i \in DOMAIN names |-> "unresolved"]
    /\ fetches = EmptyBag
    /\ failed_fetches = {}
    /\ api_calls = <<>>
    /\ stdout = <<>>
    /\ output = None
    /\ tag = NoTag

\* The state before find_instances_then is called: main has parsed its
\* options and found an operation.
Idle ==
    /\ pc = "idle"
    /\ main_matches = OperationGiven
    /\ Fresh

\* The operation is reboot where the specification does not say otherwise.
InitWith(impls) ==
    /\ impl \in impls
    /\ op = "reboot"
    /\ matches = NoMatches
    /\ now = 0
    /\ names \in SeqsUpTo(Hosts, MaxNames)
    /\ inventory = FixedInventory
    /\ Idle

Init == InitWith({"ec2"})

\* Variant: nothing is sent for an empty list.
ThenUnlessEmpty(instance_ids, built_tag) ==
    /\ stdout' = Append(stdout, Line(Announcement(op), << Join(instance_ids) >>))
    /\ IF op = "print" \/ instance_ids = <<>>
       THEN /\ pc' = "returned"
            /\ result' = Ok({})
            /\ ExitWith(SUCCESS)
            /\ UNCHANGED api_calls
       ELSE /\ pc' = "then"
            /\ api_calls' = Append(api_calls,
                    [call |-> ApiCallOf(op), instance_ids |-> instance_ids,
                     tags |-> IF op = "set-no-stop-before" THEN << built_tag >> ELSE <<>>])
            /\ UNCHANGED <<result, exit_code>>

\* Variant: the tag that is sent is built from the clock when the request is
\* sent.
ThenTagNow(instance_ids, built_tag) ==
    /\ stdout' = Append(stdout, Line(Announcement(op), << Join(instance_ids) >>))
    /\ IF op = "print"
       THEN /\ pc' = "returned"
            /\ result' = Ok({})
            /\ ExitWith(SUCCESS)
            /\ UNCHANGED api_calls
       ELSE /\ pc' = "then"
            /\ api_calls' = Append(api_calls,
                    [call |-> ApiCallOf(op), instance_ids |-> instance_ids,
                     tags |-> IF op = "set-no-stop-before"
                              THEN << Tag(built_tag.key,
                                          Format(Timestamp(DurationOf(matches).duration))) >>
                              ELSE <<>>])
            /\ UNCHANGED <<result, exit_code>>

\* The continuation is invoked and runs up to its first await: print returns,
\* the others print what they are about to do and send their request.
Then(instance_ids, built_tag) ==
    /\ stdout' = Append(stdout, Line(Announcement(op), << Join(instance_ids) >>))
    /\ IF op = "print"
       THEN /\ pc' = "returned"
            /\ result' = Ok({})
            /\ ExitWith(SUCCESS)
            /\ UNCHANGED api_calls
       ELSE /\ pc' = "then"
            /\ api_calls' = Append(api_calls,
                    [call |-> ApiCallOf(op), instance_ids |-> instance_ids,
                     tags |-> IF op = "set-no-stop-before" THEN << built_tag >> ELSE <<>>])
            /\ UNCHANGED <<result, exit_code>>

\* The code after the queue was polled: suspend again, return the error, or
\* sort the merged ids and invoke the continuation.
Resume(o, built_tag) ==
    /\ futures' = o.futures
    /\ next_outgoing' = o.next
    /\ all_instance_ids' = o.all_instance_ids
    /\ first_error' = o.first_error
    /\ CASE o.phase = "draining" ->
                /\ pc' = "draining"
                /\ UNCHANGED <<result, then_calls, api_calls, stdout, exit_code>>
         [] o.phase = "failed" \/ o.first_error # NoError ->
                /\ pc' = "returned"
                /\ result' = Err(o.first_error)
                /\ ExitWith(FAILURE)
                /\ UNCHANGED <<then_calls, api_calls, stdout>>
         [] OTHER ->
                LET instance_ids == SortedVec(o.all_instance_ids)
                IN  /\ then_calls' = Append(then_calls, instance_ids)
                    /\ Then(instance_ids, built_tag)

\* Poll the queue after future i of the queue became nf.
Poll(i, nf) ==
    LET o == [futures |-> [futures EXCEPT ![i] = nf], next |-> next_outgoing,
              all_instance_ids |-> all_instance_ids, first_error |-> first_error,
              phase |-> "draining"]
    IN  /\ Resume(IF impl = "ec2" THEN find_instances_then(o)
                  ELSE main_find_instances_then(o), tag)
        /\ first_failed' = IF first_failed = 0 /\ nf.out.tag = "Err" THEN i
                           ELSE first_failed

\* find_instances_then is called: one find_instances per name is pushed, and
\* the first futures.next().await polls them all.
Dispatch(built_tag) ==
    LET o == Orchestrator([i \in DOMAIN names |-> find_instances(names[i])])
    IN  Resume(IF impl = "ec2" THEN find_instances_then(o)
               ELSE main_find_instances_then(o), built_tag)

\* An operation without options of its own calls find_instances_then with
\* its arguments.
Call ==
    /\ pc = "idle"
    /\ op \in Ops \ { "set-no-stop-before" }
    /\ Dispatch(tag)
    /\ UNCHANGED <<impl, main_matches, op, matches, now, tag, names, lookups, queries, first_failed, dns, fetches,
                   failed_fetches, output, inventory>>

\* resolver_from_system_conf() of name i completes.
ResolverConf(i, ok) ==
    /\ pc = "draining"
    /\ futures[i].st = "conf"
    /\ Poll(i, ResolverReady(futures[i], i, ok))
    /\ lookups' = IF ok THEN lookups \cup {i} ELSE lookups
    /\ dns' = IF ok THEN dns ELSE [dns EXCEPT ![i] = "failed"]
    /\ UNCHANGED <<impl, main_matches, op, matches, now, tag, names, queries, fetches, failed_fetches, output, inventory>>

\* The queries the strategies of name future f have issued.
QueriesOf(i, f) ==
    { [name |-> i, addr |-> j, strat |-> k, filter |-> f.futures[j].futures[k].filter] :
        <<j, k>> \in { <<j, k>> \in (DOMAIN f.futures) \X DOMAIN StrategyFutures(X4) :
                          f.futures[j].futures[k].filter # NoFilter } }

\* A request for one page: page p of the query of strategy k of address j
\* of name i.
Fetch(i, j, k, p) == [name |-> i, addr |-> j, strat |-> k, page |-> p]

\* lookup_ip() of name i completes.  Every query that is issued requests its
\* first page.
LookupIp(i, ok) ==
    /\ pc = "draining"
    /\ futures[i].st = "lookup"
    /\ LET nf == LookupDone(futures[i], i, ok)
       IN  /\ Poll(i, nf)
           /\ queries' = queries \cup QueriesOf(i, nf)
           /\ fetches' = fetches (+) SetToBag(
                            { Fetch(i, q.addr, q.strat, nf.futures[q.addr].futures[q.strat].page) :
                                q \in QueriesOf(i, nf) })
    /\ dns' = [dns EXCEPT ![i] = IF ok THEN "resolved" ELSE "failed"]
    /\ UNCHANGED <<impl, main_matches, op, matches, now, tag, names, lookups, failed_fetches, output, inventory>>

\* The fetch of the next page of strategy k of address j of name i
\* completes.  A collector that goes on waiting has requested a page.
PageFetch(i, j, k, fetched) ==
    /\ pc = "draining"
    /\ futures[i].st = "running"
    /\ futures[i].futures[j].st = "running"
    /\ futures[i].futures[j].futures[k].st = "inflight"
    /\ LET p == futures[i].futures[j].futures[k].page
           nf == FindInstancesPoll(futures[i], j, k, fetched,
                                   DescribeInstancesSdkError(i, j, k, p))
           collector == nf.futures[j].futures[k]
       IN  /\ Poll(i, nf)
           /\ fetches' = IF collector.st = "inflight"
                         THEN fetches (+) SetToBag({ Fetch(i, j, k, collector.page) })
                         ELSE fetches
           /\ failed_fetches' = IF fetched THEN failed_fetches
                                ELSE failed_fetches \cup { Fetch(i, j, k, p) }
    /\ UNCHANGED <<impl, main_matches, op, matches, now, tag, names, lookups, queries, dns, output, inventory>>

\* What a continuation prints after its request succeeded.
SuccessReport(instance_ids, changes) ==
    CASE op = "reboot" -> << Line("Rebooted instances: {}", << Join(instance_ids) >>) >>
      [] op \in {"start", "stop", "terminate"} -> print_instance_state_changes(changes)
      [] OTHER -> << Line("Set NoStopBefore to {} for instances: {}",
                          << tag.value, Join(instance_ids) >>) >>

\* The request of the continuation completes and the continuation returns.
\* Only the responses of start, stop and terminate carry state changes.
ThenReturns(ok, changes) ==
    /\ pc = "then"
    /\ pc' = "returned"
    /\ changes.some => ok /\ op \in {"start", "stop", "terminate"}
    /\ output' = changes
    /\ IF ok
       THEN /\ result' = Ok({})
            /\ stdout' = stdout \o SuccessReport(then_calls[1], changes)
            /\ ExitWith(SUCCESS)
       ELSE /\ result' = Err(ContinuationError)
            /\ ExitWith(FAILURE)
            /\ UNCHANGED stdout
    /\ UNCHANGED <<impl, main_matches, op, matches, now, tag, names, futures, next_outgoing, all_instance_ids, first_error,
                   then_calls, lookups, queries, first_failed, dns, fetches,
                   failed_fetches, api_calls, inventory>>

Next ==
    \/ Call
    \/ \E i \in DOMAIN futures, ok \in BOOLEAN : ResolverConf(i, ok)
    \/ \E i \in DOMAIN futures, ok \in BOOLEAN : LookupIp(i, ok)
    \/ \E i \in DOMAIN futures : \E j \in DOMAIN futures[i].futures :
            \E k \in DOMAIN futures[i].futures[j].futures, fetched \in BOOLEAN :
                PageFetch(i, j, k, fetched)
    \/ \E ok \in BOOLEAN, changes \in Responses : ThenReturns(ok, changes)

Spec == Init /\ [][Next]_vars

\* ------------------------------------------------------------------------
\* All operations, with their command lines and the clock
\* ------------------------------------------------------------------------
\* The function ends without calling find_instances_then.
ReturnEarly(r, code) ==
    /\ pc' = "returned"
    /\ result' = r
    /\ ExitWith(code)
    /\ UNCHANGED <<futures, next_outgoing, all_instance_ids, first_error, then_calls,
                   api_calls, tag>>

\* set_no_stop_before up to the first await: the options are checked, the
\* tag is built from the clock, find_instances_then is called with the free
\* arguments.  -h prints the usage in src/main.rs and is Error::ShowUsage in
\* src/ops/set_no_stop.rs.
SetNoStopBefore ==
    /\ pc = "idle"
    /\ op = "set-no-stop-before"
    /\ LET options == DurationOf(matches)
           built == Tag("NoStopBefore", Format(Timestamp(options.duration)))
       IN  CASE options.err = NoError /\ Representable(options.duration) ->
                    /\ tag' = built
                    /\ Dispatch(built)
             [] options.err = NoError /\ ~Representable(options.duration) ->
                    /\ ReturnEarly(Panicked, PanicStatus)
                    /\ UNCHANGED stdout
             [] options.err = UsageError("ShowUsage") /\ impl = "main" ->
                    /\ ReturnEarly(Ok({}), SUCCESS)
                    /\ stdout' = Append(stdout, Line("usage", <<>>))
             [] OTHER ->
                    /\ ReturnEarly(Err(options.err), INVALID_USAGE)
                    /\ UNCHANGED stdout
    /\ UNCHANGED <<impl, main_matches, op, matches, now, names, lookups, queries, first_failed, dns,
                   fetches, failed_fetches, output, inventory>>

\* Time passes.  Only set-no-stop-before reads the clock.
Tick ==
    /\ op = "set-no-stop-before"
    /\ pc # "returned"
    /\ now < MaxClock
    /\ now' = now + 1
    /\ UNCHANGED <<impl, main_matches, op, matches, tag, names, pc, futures, next_outgoing,
                   all_instance_ids, first_error, result, then_calls, lookups, queries,
                   first_failed, dns, fetches, failed_fetches, api_calls, stdout, output,
                   exit_code, inventory>>

\* Hosts given to the operations.
OpHosts == {"b", "c", "d"}

InitOps ==
    /\ impl \in {"ec2", "main"}
    /\ op \in Ops
    /\ matches \in IF op = "set-no-stop-before" THEN CommandLines ELSE { NoMatches }
    /\ now = 0
    /\ names \in SeqsUpTo(OpHosts, MaxNames)
    /\ inventory = FixedInventory
    /\ Idle

NextOps == Next \/ SetNoStopBefore \/ Tick

SpecOps == InitOps /\ [][NextOps]_vars

\* ------------------------------------------------------------------------
\* The program of src/main.rs
\* ------------------------------------------------------------------------
\* An operation name main does not know, and the name of no operation.
UnknownOperation == "unknown-operation"
NoOperation == "no-operation"

\* main up to config.load().await: the options are parsed, -h prints the
\* usage, a command line without operation is refused.
Main ==
    /\ pc = "main"
    /\ CASE ~main_matches.parse_ok ->
                /\ ReturnEarly(Err(UsageError("getopts::Fail")), INVALID_USAGE)
                /\ UNCHANGED stdout
         [] main_matches.parse_ok /\ main_matches.h ->
                /\ ReturnEarly(Ok({}), SUCCESS)
                /\ stdout' = Append(stdout, Line("usage", <<>>))
         [] main_matches.parse_ok /\ ~main_matches.h /\ ~main_matches.free ->
                /\ ReturnEarly(Err(UsageError("No operation specified")), INVALID_USAGE)
                /\ UNCHANGED stdout
         [] OTHER ->
                /\ pc' = "idle"
                /\ UNCHANGED <<futures, next_outgoing, all_instance_ids, first_error,
                               then_calls, api_calls, tag, result, exit_code, stdout>>
    /\ UNCHANGED <<impl, main_matches, op, matches, now, names, lookups, queries,
                   first_failed, dns, fetches, failed_fetches, output, inventory>>

\* The configuration is loaded and the operation name matches no arm.
UnknownOp ==
    /\ pc = "idle"
    /\ op \notin Ops
    /\ ReturnEarly(Err(UsageError("Unknown operation")), INVALID_USAGE)
    /\ UNCHANGED <<impl, main_matches, op, matches, now, names, lookups, queries,
                   first_failed, dns, fetches, failed_fetches, output, stdout, inventory>>

InitMain ==
    /\ impl = "main"
    /\ pc = "main"
    /\ main_matches \in MainCommandLines
    /\ op \in IF main_matches.free THEN Ops \cup { UnknownOperation } ELSE { NoOperation }
    /\ matches \in IF op = "set-no-stop-before" THEN CommandLines ELSE { NoMatches }
    /\ now = 0
    /\ names \in SeqsUpTo(OpHosts, MaxNames)
    /\ inventory = FixedInventory
    /\ Fresh

NextMain == NextOps \/ Main \/ UnknownOp

SpecMain == InitMain /\ [][NextMain]_vars

\* Hosts of the runs under fair scheduling: two addresses with a query of
\* two pages, no address, one address.
FairHosts == {"b", "c", "d"}

InitFair ==
    /\ impl = "ec2"
    /\ op = "reboot"
    /\ matches = NoMatches
    /\ now = 0
    /\ names \in SeqsUpTo(FairHosts, MaxNames)
    /\ inventory = FixedInventory
    /\ Idle

\* Fair scheduling: as long as an await of some branch can complete, one
\* does.  Every lookup and every page fetch that is awaited completes, with
\* success or with an error, and every page stream is finite.
SpecFair == InitFair /\ [][Next]_vars /\ WF_vars(Next)

\* Both copies of the orchestrator.
InitBoth == InitWith({"ec2", "main"})
SpecBoth == InitBoth /\ [][Next]_vars

\* ------------------------------------------------------------------------
\* The Pagination Collector on arbitrary page streams
\* ------------------------------------------------------------------------
\* Pages with every field present or absent: no reservation list, an empty
\* one, a reservation without instance list, an instance without id, and
\* pages with ids in one or two reservations.
PageShapes ==
    { [reservations |-> None],
      EmptyPage,
      [reservations |-> Some(<< [instances |-> None] >>)],
      [reservations |-> Some(<< [instances |-> Some(<< [instance_id |-> None] >>)] >>)],
      PageOf(<<I1, I2>>),
      PageOf(<<I10>>),
      [reservations |-> Some(<<
            [instances |-> Some(<< [instance_id |-> Some(I1)], [instance_id |-> None] >>)],
            [instances |-> Some(<< [instance_id |-> Some(I2)] >>)] >>)] }

\* The page streams of 1..n pages; a paged query yields at least one page.
RECURSIVE PageStreams(_)
PageStreams(n) ==
    IF n = 1 THEN { <<p>> : p \in PageShapes }
    ELSE PageStreams(n - 1)
            \cup { Append(s, p) : <<s, p>> \in PageStreams(n - 1) \X PageShapes }

\* The one query that is issued for the host d: netif-ipv6 on Y6.
CollectorFilter == Ec2Filter("network-interface.ipv6-addresses.ipv6-address", Y6.text)

\* find_instances_then(["d"], ..) against an inventory in which the query
\* yields any stream of at most MaxPages pages.
InitPages ==
    /\ impl = "ec2"
    /\ op = "reboot"
    /\ matches = NoMatches
    /\ now = 0
    /\ names = <<"d">>
    /\ inventory \in { CollectorFilter :> stream : stream \in PageStreams(MaxPages) }
    /\ Idle

SpecPages == InitPages /\ [][Next]_vars

\* ------------------------------------------------------------------------
\* Properties
\* ------------------------------------------------------------------------
Finished == pc \in {"then", "returned"}
FailedNames == { i \in DOMAIN futures : futures[i].out.tag = "Err" }
AllNamesOk == \A i \in DOMAIN futures : futures[i].out.tag = "Ok"
Range(v) == { v[n] : n \in DOMAIN v }
StrictlyAscending(v) == \A m, n \in DOMAIN v : m < n => LexLess(v[m], v[n])

\* C1: find_instances_then of src/ec2.rs reports its result (returns, or
\* invokes the continuation) only when every find_instances future it
\* dispatched has completed and its output has been taken from the queue,
\* also when some of them failed.
C1_AllAwaited ==
    Finished
        => /\ \A i \in DOMAIN futures : futures[i].st = "done"
           /\ next_outgoing = Len(futures) + 1

\* Name 1 failed, the orchestrator returned its error, and name 2 was still
\* run to completion with instances found.
C1_Witness ==
    /\ pc = "returned"
    /\ Len(futures) = 2
    /\ futures[1].out.tag = "Err"
    /\ result = futures[1].out
    /\ futures[2].out.tag = "Ok"
    /\ futures[2].out.ids # {}

\* C2: with either copy of the orchestrator, if a find_instances future has
\* failed, the continuation has not been and is never invoked, and what the
\* orchestrator returns is the error of one of the failed futures.
C2_ErrorNoContinuation ==
    FailedNames # {}
        => /\ then_calls = <<>>
           /\ pc # "then"
           /\ pc = "returned" =>
                /\ result.tag = "Err"
                /\ \E i \in FailedNames : result = futures[i].out

\* One name failed while another succeeded with instances, and the
\* operation ended with the error.
C2_Witness ==
    /\ pc = "returned"
    /\ result.tag = "Err"
    /\ then_calls = <<>>
    /\ \E i \in DOMAIN futures :
            futures[i].out.tag = "Ok" /\ futures[i].out.ids # {}

\* C3: the continuation is invoked at most once; when every find_instances
\* future succeeded it has been invoked exactly once, and its argument holds
\* exactly the ids of the union of the per-name sets, each once, in strictly
\* ascending lexicographic order.
C3_SortedUnionOnce ==
    /\ Len(then_calls) <= 1
    /\ (Finished /\ AllNamesOk) =>
            /\ Len(then_calls) = 1
            /\ StrictlyAscending(then_calls[1])
            /\ Range(then_calls[1]) = UNION { futures[i].out.ids : i \in DOMAIN futures }
            /\ Len(then_calls[1]) = Cardinality(Range(then_calls[1]))

\* Two names whose instance sets overlap (i-10 is found through both), and
\* the continuation received "i-1", "i-10", "i-2".
C3_Witness ==
    /\ Len(futures) = 2
    /\ futures[1].out.tag = "Ok" /\ futures[2].out.tag = "Ok"
    /\ futures[1].out.ids \cap futures[2].out.ids # {}
    /\ then_calls = << <<I1, I10, I2>> >>

\* C4: for the empty list of names no lookup and no query is made and the
\* continuation is invoked exactly once, with the empty vector, so that the
\* only error the operation can end with is the continuation's own; the
\* continuation also gets the empty vector when all names resolve to no
\* instance.
C4_EmptyList ==
    /\ (names = <<>> /\ pc # "idle") =>
            /\ lookups = {} /\ queries = {}
            /\ then_calls = << <<>> >>
            /\ result.err \in {NoError, ContinuationError}
    /\ (Finished /\ AllNamesOk /\ \A i \in DOMAIN futures : futures[i].out.ids = {})
            => then_calls = << <<>> >>

C4_Witness ==
    /\ names = <<>>
    /\ pc = "returned"
    /\ result = Ok({})
    /\ then_calls = << <<>> >>

Least(S) == CHOOSE n \in S : \A m \in S : n <= m

\* C5 as stated: when two or more find_instances futures failed, the error
\* returned is the error of the one that failed first in time.
C5_FirstCompletedError ==
    (pc = "returned" /\ Cardinality(FailedNames) >= 2)
        => result = futures[first_failed].out

\* C5, amended: when two or more find_instances futures failed, the error
\* find_instances_then of src/ec2.rs returns is the error of the failed name
\* that comes first in the list of names, whichever of them failed first in
\* time.
C5_FirstDispatchedError ==
    (pc = "returned" /\ Cardinality(FailedNames) >= 2)
        => result = futures[Least(FailedNames)].out

\* Name 2 failed first in time, name 1 failed later, and the error of
\* name 1 was returned.
C5_Witness ==
    /\ pc = "returned"
    /\ Cardinality(FailedNames) >= 2
    /\ first_failed = 2
    /\ result = futures[1].out
    /\ futures[1].out # futures[2].out

\* The find_instances_by_ip futures that were dispatched.
ByIps == UNION { Range(futures[i].futures) : i \in DOMAIN futures }
FailedStrategies(b) == { k \in DOMAIN b.futures : b.futures[k].out.tag = "Err" }

\* C6 as stated: when two or more strategies of one address failed, the
\* error find_instances_by_ip returns is that of the strategy that failed
\* first in time.
C6_FirstCompletedStrategyError ==
    \A b \in ByIps :
        (b.out.tag = "Err" /\ Cardinality(FailedStrategies(b)) >= 2)
            => b.out = b.futures[b.first_failed].out

\* C6, amended: when two or more strategies of one address failed, the error
\* find_instances_by_ip returns is that of the failed strategy that was
\* pushed first (public-ip, public-eip, private-ip, private-netif-ip,
\* netif-ipv6 in this order), whichever of them failed first in time.
C6_FirstDispatchedStrategyError ==
    \A b \in ByIps :
        (b.out.tag = "Err" /\ Cardinality(FailedStrategies(b)) >= 2)
            => b.out = b.futures[Least(FailedStrategies(b))].out

\* A resolver that returned the error of public-ip although a strategy
\* pushed later had failed before it.
C6_Witness ==
    \E b \in ByIps :
        /\ b.out.tag = "Err"
        /\ Cardinality(FailedStrategies(b)) >= 2
        /\ b.first_failed > 1
        /\ b.out = b.futures[1].out

\* C7 as stated: no find_instances_by_ip is still waiting once one of its
\* strategies has completed with an error.
C7_FailFastOnAnyError ==
    \A b \in ByIps : FailedStrategies(b) # {} => b.st # "running"

\* C7, amended: find_instances_by_ip returns the error of a strategy as soon
\* as that strategy has failed and every strategy pushed before it has
\* succeeded, without waiting for the strategies pushed after it; while a
\* strategy pushed before the failed one is in flight the resolver keeps
\* waiting for it.
C7_FailFastAtHead ==
    \A b \in ByIps : \A k \in FailedStrategies(b) :
        IF \A l \in 1..(k - 1) : b.futures[l].out.tag = "Ok"
        THEN b.st = "done" /\ b.out = b.futures[k].out
        ELSE b.st = "running" =>
                \E l \in 1..(k - 1) : b.futures[l].st = "inflight"

\* A resolver that returned an error while another of its strategies was
\* in flight; that strategy was dropped.
C7_Witness ==
    \E b \in ByIps :
        /\ b.st = "done"
        /\ b.out.tag = "Err"
        /\ \E k \in DOMAIN b.futures : b.futures[k].st = "dropped"

\* The queries issued for address j of name i.
QueriesFor(i, j) == { q \in queries : q.name = i /\ q.addr = j }
Ipv4FilterNames ==
    { "ip-address", "network-interface.addresses.association.public-ip",
      "private-ip-address", "network-interface.addresses.private-ip-address" }
Ipv6FilterName == "network-interface.ipv6-addresses.ipv6-address"

\* C8: for an IPv6 address exactly one query is issued, by netif-ipv6 with
\* the ipv6-address filter on that address, and the four IPv4 strategies
\* have returned Ok with the empty set without a query; for an IPv4 address
\* exactly four queries are issued, one by each IPv4 strategy with its own
\* filter on that address, and netif-ipv6 has returned Ok with the empty set
\* without a query.  No query is issued for anything but a resolved address.
C8_QueriesPerFamily ==
    /\ \A q \in queries :
            /\ q.name \in DOMAIN futures
            /\ q.addr \in DOMAIN futures[q.name].futures
    /\ \A i \in DOMAIN futures : \A j \in DOMAIN futures[i].futures :
        LET b == futures[i].futures[j]
            unqueried(k) == b.futures[k] = Returned(Ok({}))
        IN  IF b.address.family = "V6"
            THEN /\ QueriesFor(i, j) =
                        { [name |-> i, addr |-> j, strat |-> 5,
                           filter |-> Ec2Filter(Ipv6FilterName, b.address.text)] }
                 /\ \A k \in 1..4 : unqueried(k)
            ELSE /\ Cardinality(QueriesFor(i, j)) = 4
                 /\ { q.strat : q \in QueriesFor(i, j) } = 1..4
                 /\ { q.filter.name : q \in QueriesFor(i, j) } = Ipv4FilterNames
                 /\ \A q \in QueriesFor(i, j) : q.filter.value = b.address.text
                 /\ unqueried(5)

\* An IPv4 and an IPv6 address have both been resolved and dispatched.
C8_Witness ==
    /\ \E b \in ByIps : b.address.family = "V4"
    /\ \E b \in ByIps : b.address.family = "V6"
    /\ \E q \in queries : q.strat = 5
    /\ \E q \in queries : q.strat = 1

\* C9: every find_instances_by_ip holds its five strategy futures; one that
\* returned Ok has taken the Ok output of all five, whatever the earlier
\* ones found, and returns exactly the union of the five sets.  For X4, the
\* public address of i-2 and the private address of i-10, that is both.
C9_UnionOfFive ==
    \A b \in ByIps :
        /\ Len(b.futures) = 5
        /\ b.out.tag = "Ok" =>
            /\ \A k \in 1..5 : b.futures[k].st = "done" /\ b.futures[k].out.tag = "Ok"
            /\ b.out.ids = UNION { b.futures[k].out.ids : k \in 1..5 }
            /\ b.address = X4 => b.out.ids = {I2, I10}

\* The resolver of X4 returned after public-ip found i-2 and private-ip
\* found i-10.
C9_Witness ==
    \E b \in ByIps :
        /\ b.address = X4
        /\ b.futures[1].out = Ok({I2})
        /\ b.futures[3].out = Ok({I10})
        /\ b.out = Ok({I2, I10})

\* C10: a name whose DNS resolution failed (building the resolver or the
\* lookup itself) has the find_instances output Err with that ResolveError,
\* and no address was dispatched and no query issued for it; a name whose
\* lookup succeeded with no address has the output Ok with the empty set,
\* and no query was issued for it.
C10_DnsFailureOrEmpty ==
    \A i \in DOMAIN futures :
        /\ dns[i] = "failed" =>
            /\ futures[i].st = "done"
            /\ futures[i].out \in {Err(ConfError(i)), Err(LookupError(i))}
            /\ futures[i].futures = <<>>
            /\ \A q \in queries : q.name # i
        /\ (dns[i] = "resolved" /\ DnsAnswer(names[i]) = <<>>) =>
            /\ futures[i].st = "done"
            /\ futures[i].out = Ok({})
            /\ \A q \in queries : q.name # i

\* The lookup of one name failed and the lookup of another name gave no
\* address; both find_instances futures have completed.
C10_Witness ==
    \E i, n \in DOMAIN futures :
        /\ dns[i] = "failed"
        /\ i \in lookups
        /\ futures[i].out = Err(LookupError(i))
        /\ dns[n] = "resolved"
        /\ DnsAnswer(names[n]) = <<>>
        /\ futures[n].out = Ok({})

\* C11: a name whose lookup succeeded has one find_instances_by_ip per
\* address of the answer, in the order of the answer.  When its
\* find_instances returned Ok, every one of them returned Ok and the set
\* returned is the union of theirs; when it returned and one of them had
\* failed, it returned Err, and the Err is the output of a failed
\* find_instances_by_ip as it is: the Error made by `?` from the SdkError of
\* the page fetch that failed, with no instance id.
C11_UnionOrSameError ==
    \A i \in DOMAIN futures : dns[i] = "resolved" =>
        LET f == futures[i]
            ips == DnsAnswer(names[i])
            failed == { j \in DOMAIN f.futures : f.futures[j].out.tag = "Err" }
        IN  /\ DOMAIN f.futures = DOMAIN ips
            /\ \A j \in DOMAIN ips : f.futures[j].address = ips[j]
            /\ f.out.tag = "Ok" =>
                /\ failed = {}
                /\ \A j \in DOMAIN ips : f.futures[j].out.tag = "Ok"
                /\ f.out.ids = UNION { f.futures[j].out.ids : j \in DOMAIN ips }
            /\ (f.st = "done" /\ failed # {}) =>
                /\ f.out.tag = "Err"
                /\ f.out.ids = {}
                /\ \E j \in failed : \E k \in DOMAIN f.futures[j].futures :
                    /\ f.out = f.futures[j].out
                    /\ f.out = f.futures[j].futures[k].out
                    /\ f.out.err = FromSdkError(DescribeInstancesSdkError(
                                        i, j, k, f.futures[j].futures[k].page))

\* The first address of a name gave instances, the fetch of its second
\* address failed, and find_instances returned that error.
C11_Witness ==
    \E i \in DOMAIN futures :
        /\ dns[i] = "resolved"
        /\ Len(futures[i].futures) = 2
        /\ futures[i].futures[1].out.tag = "Ok"
        /\ futures[i].futures[1].out.ids # {}
        /\ futures[i].futures[2].out.tag = "Err"
        /\ futures[i].out = futures[i].futures[2].out

\* The collectors: the strategy futures that issued a query, by position.
Collectors ==
    { c \in UNION { { <<i, j, k>> : <<j, k>> \in
                        (DOMAIN futures[i].futures) \X DOMAIN StrategyFutures(X4) } :
                    i \in DOMAIN futures } :
        futures[c[1]].futures[c[2]].futures[c[3]].filter # NoFilter }
Collector(c) == futures[c[1]].futures[c[2]].futures[c[3]]

\* The ids a page holds: those of the instances that have one, in the
\* reservations that have an instance list, if the page has reservations.
IdsIn(page) ==
    { x \in InstanceIds :
        /\ page.reservations.some
        /\ \E r \in DOMAIN page.reservations.val :
            /\ page.reservations.val[r].instances.some
            /\ \E n \in DOMAIN page.reservations.val[r].instances.val :
                page.reservations.val[r].instances.val[n].instance_id = Some(x) }

\* C12: a collector that returned Ok has requested every page of its stream,
\* each once, and returns exactly the ids of all the pages; for the pages
\* [{i-1, i-2}, {i-10}] that is {i-1, i-2, i-10}, for a stream without
\* matches it is Ok with the empty set.  A collector none of whose fetches
\* failed and which has pages left is still waiting.
C12_DrainsAllPages ==
    \A c \in Collectors :
        LET f == Collector(c)
            pages == InventoryPages(f.filter)
        IN  /\ f.out.tag = "Ok" =>
                /\ f.page = Len(pages)
                /\ \A p \in DOMAIN pages :
                        CopiesIn(Fetch(c[1], c[2], c[3], p), fetches) = 1
                /\ f.out.ids = UNION { IdsIn(pages[p]) : p \in DOMAIN pages }
            /\ (f.st = "done" /\ \A ff \in failed_fetches :
                                    <<ff.name, ff.addr, ff.strat>> # c)
                    => f.out.tag = "Ok"

\* The stream [{i-1, i-2}, {i-10}] was collected into {i-1, i-2, i-10}.
C12_Witness ==
    \E c \in Collectors :
        /\ InventoryPages(Collector(c).filter) = << PageOf(<<I1, I2>>), PageOf(<<I10>>) >>
        /\ Collector(c).out = Ok({I1, I2, I10})

\* C13: when the fetch of page p of a query failed, the collector has
\* returned Err with the Error made from that fetch's SdkError and nothing
\* else, the page was requested once and no page after it was requested,
\* and no id of the earlier pages is held by the collector, by
\* find_instances_by_ip, by find_instances or by the orchestrator, nor was
\* the continuation invoked.
C13_ErrorOnly ==
    \A ff \in failed_fetches :
        LET f == futures[ff.name].futures[ff.addr].futures[ff.strat]
            b == futures[ff.name].futures[ff.addr]
        IN  /\ f.st = "done"
            /\ f.out = Err(FromSdkError(DescribeInstancesSdkError(
                                ff.name, ff.addr, ff.strat, ff.page)))
            /\ f.results = {}
            /\ CopiesIn(ff, fetches) = 1
            /\ \A q \in BagToSet(fetches) :
                    <<q.name, q.addr, q.strat>> = <<ff.name, ff.addr, ff.strat>>
                        => q.page <= ff.page
            /\ b.out = f.out /\ b.all_instance_ids = {}
            /\ futures[ff.name].out = f.out /\ futures[ff.name].all_instance_ids = {}
            /\ all_instance_ids = {}
            /\ then_calls = <<>>

\* The first page gave i-1 and i-2, the fetch of the second page failed.
C13_Witness ==
    \E ff \in failed_fetches :
        /\ ff.page = 2
        /\ IdsIn(InventoryPages(CollectorFilter)[1]) = {I1, I2}
        /\ result.tag = "Err"

\* What the inputs alone determine: the ids of all pages of all queries that
\* apply to the addresses of the names.
FiltersFor(address) ==
    IF address.family = "V4"
    THEN { Ec2Filter(n, address.text) : n \in Ipv4FilterNames }
    ELSE { Ec2Filter(Ipv6FilterName, address.text) }
ExpectedIds ==
    UNION { IdsIn(InventoryPages(flt)[p]) :
            <<flt, p>> \in UNION { { <<flt, p>> : p \in DOMAIN InventoryPages(flt) } :
                flt \in UNION { FiltersFor(DnsAnswer(names[i])[j]) :
                    <<i, j>> \in UNION { { <<i, j>> : j \in DOMAIN DnsAnswer(names[i]) } :
                                         i \in DOMAIN names } } } }

\* C15: whenever the continuation is invoked, whatever the order in which the
\* lookups and page fetches completed, the vector it gets is the one the
\* names, the DNS answers and the inventory determine: the ids of
\* ExpectedIds, each once, in ascending order.
C15_Deterministic ==
    then_calls # <<>> =>
        /\ Range(then_calls[1]) = ExpectedIds
        /\ StrictlyAscending(then_calls[1])

\* Two names with seven queries between them, completed in some order, and
\* the continuation got "i-1", "i-10", "i-2".
C15_Witness ==
    /\ Len(names) = 2
    /\ Cardinality(queries) >= 5
    /\ then_calls = << <<I1, I10, I2>> >>

\* ------------------------------------------------------------------------
\* The operations
\* ------------------------------------------------------------------------
MutatingCalls ==
    { "RebootInstances", "StartInstances", "StopInstances", "TerminateInstances",
      "CreateTags" }
InFlight == { c \in Collectors : Collector(c).st = "inflight" }

\* C14: in every run of every operation at most one mutating request is
\* sent, and when one has been sent every find_instances future that was
\* dispatched, one per name, has completed with Ok: no lookup and no page
\* fetch failed, none is still in flight.  (The futures do not change once
\* the continuation runs, so what holds after the request held when it was
\* sent.)
C14_MutationAfterResolution ==
    /\ Len(api_calls) <= 1
    /\ \A n \in DOMAIN api_calls : api_calls[n].call \in MutatingCalls
    /\ api_calls # <<>> =>
        /\ DOMAIN futures = DOMAIN names
        /\ \A i \in DOMAIN futures :
            /\ futures[i].st = "done"
            /\ futures[i].out.tag = "Ok"
            /\ dns[i] = "resolved"
        /\ InFlight = {}
        /\ failed_fetches = {}
        /\ first_failed = 0

\* terminate of two names: three queries were issued, all completed, and the
\* one terminate request was sent.
C14_Witness ==
    /\ op = "terminate"
    /\ Len(names) = 2
    /\ Cardinality(queries) = 3
    /\ Len(api_calls) = 1
    /\ pc = "then"

\* C16: set-no-stop-before with options that parse and without -h: when both
\* --duration and --time are given, or neither, the function returns
\* InvalidUsage, and no find_instances future was pushed, no lookup and no
\* query was made, no request was sent.
BothOrNeither ==
    /\ op = "set-no-stop-before"
    /\ matches.parse_ok
    /\ ~matches.h
    /\ matches.d.present = matches.t.present
C16_BothOrNeitherIsUsageError ==
    (BothOrNeither /\ pc # "idle") =>
        /\ pc = "returned"
        /\ result = Err(UsageError("InvalidUsage"))
        /\ futures = <<>>
        /\ then_calls = <<>>
        /\ lookups = {}
        /\ queries = {}
        /\ fetches = EmptyBag
        /\ api_calls = <<>>
        /\ tag = NoTag

\* Both options with values that parse, two names, and the function returned.
C16_Witness ==
    /\ BothOrNeither
    /\ matches.d = Parsed(1)
    /\ matches.t = Parsed(2)
    /\ Len(names) = 2
    /\ pc = "returned"

\* C17 as stated, for --time: the value of the tag is the time the option
\* names, formatted, whatever the clock shows.
C17_TimeIsAbsolute ==
    (op = "set-no-stop-before" /\ tag # NoTag /\ matches.t.present)
        => tag.value = Format(matches.t.value)

\* C18: set-no-stop-before: no find_instances future exists before the tag
\* is built; once built the tag never changes, however far the clock
\* advances while the names are resolved; and the step that invokes the
\* continuation sends the one create-tags request of the run, with the
\* whole vector the continuation got and exactly that tag, whose key is
\* NoStopBefore.
C18_TagFixedBeforeResolution ==
    [][ op = "set-no-stop-before" =>
          /\ tag = NoTag => futures = <<>> /\ lookups = {} /\ api_calls = <<>>
          /\ tag # NoTag => tag' = tag
          /\ then_calls' # then_calls =>
                /\ tag'.key = "NoStopBefore"
                /\ api_calls = <<>>
                /\ api_calls' = << [call |-> "CreateTags",
                                    instance_ids |-> then_calls'[1],
                                    tags |-> << tag' >>] >>
          /\ api_calls' # api_calls => then_calls' # then_calls ]_vars

\* The tag was built in the first second, for a duration of zero; the clock
\* has reached its last instant, two names were resolved and the request
\* with both ids and the tag of the first second was sent.
C18_Witness ==
    /\ op = "set-no-stop-before"
    /\ matches.d = Parsed(0)
    /\ now = MaxClock
    /\ Len(names) = 2
    /\ api_calls = << [call |-> "CreateTags", instance_ids |-> <<I1, I10>>,
                       tags |-> << Tag("NoStopBefore", 0) >>] >>

\* C19: once the continuation of reboot, start, stop, terminate or
\* set-no-stop-before was invoked, exactly one request was sent, the one of
\* the operation, with the vector the continuation got, empty or not; and
\* when the operation has returned an error then, it is the error of that
\* request, and nothing was printed after the announcement.
C19_OneCallNoRetry ==
    (op # "print" /\ then_calls # <<>>) =>
        /\ Len(api_calls) = 1
        /\ api_calls[1].call = ApiCallOf(op)
        /\ api_calls[1].instance_ids = then_calls[1]
        /\ (pc = "returned" /\ result.tag = "Err") =>
            /\ result.err = ApiError(api_calls[1].call)
            /\ Len(stdout) = 1

\* stop of a name without addresses: the request was sent with the empty
\* list, it failed, and the operation returned its error.
C19_Witness ==
    /\ op = "stop"
    /\ names = <<"c">>
    /\ api_calls = << [call |-> "StopInstances", instance_ids |-> <<>>, tags |-> <<>>] >>
    /\ pc = "returned"
    /\ result = Err(ApiError("StopInstances"))

\* C20: after a start, stop or terminate request succeeded, the lines after
\* the announcement are one per state change of the response, in the order
\* of the response: the instance id, ": ", the name of the previous state,
\* " -> ", the name of the current state, where an absent id, an absent
\* state and a state without name are printed as the empty string.  Nothing
\* is printed for an id that was requested and is not in the response.
StateChanges == IF output.some THEN output.val ELSE <<>>
C20_OneLinePerChange ==
    (op \in {"start", "stop", "terminate"} /\ pc = "returned" /\ result.tag = "Ok") =>
        /\ Len(stdout) = 1 + Len(StateChanges)
        /\ \A n \in DOMAIN StateChanges :
            LET change == StateChanges[n]
                line == stdout[1 + n]
            IN  /\ line.fmt = "{}: {} -> {}"
                /\ Len(line.args) = 3
                /\ line.args[1] = IF change.instance_id.some
                                  THEN change.instance_id.val ELSE <<>>
                /\ line.args[2] = IF change.previous_state.some
                                        /\ change.previous_state.val.name.some
                                  THEN change.previous_state.val.name.val ELSE ""
                /\ line.args[3] = IF change.current_state.some
                                        /\ change.current_state.val.name.some
                                  THEN change.current_state.val.name.val ELSE ""

\* start of "i-1": the response holds a change without states for "i-10" and
\* one without id, and nothing for "i-1"; two lines were printed.
C20_Witness ==
    /\ op = "start"
    /\ then_calls = << <<I1>> >>
    /\ output = Some(<< Change(Some(I10), NoState, StateWithoutName),
                        Change(None, State("running"), State("stopping")) >>)
    /\ stdout = << Line("Starting instances: {}", << <<I1>> >>),
                   Line("{}: {} -> {}", << I10, "", "" >>),
                   Line("{}: {} -> {}", << <<>>, "running", "stopping" >>) >>

\* ------------------------------------------------------------------------
\* Order of consumption
\* ------------------------------------------------------------------------
\* The failed names whose output the orchestrator has taken from the queue.
TakenFailed == { i \in FailedNames : i < next_outgoing }

\* C23: find_instances_then of src/ec2.rs takes the outputs in the order of
\* the names: every name before next_outgoing is done, the recorded error is
\* at every moment the error of the first failed name, by position, among
\* those taken, and the error returned is the error of the first failed name
\* of the list, whichever name failed first in time.
C23_ErrorOfSmallestPosition ==
    /\ \A i \in DOMAIN futures : i < next_outgoing => futures[i].st = "done"
    /\ next_outgoing <= Len(futures) => futures[next_outgoing].out.tag = "Pending"
    /\ first_error = IF TakenFailed = {} THEN NoError
                     ELSE futures[Least(TakenFailed)].out.err
    /\ (pc = "returned" /\ FailedNames # {}) =>
            result = Err(futures[Least(FailedNames)].out.err)

\* Both names failed, the second before the first was even looked up, and
\* the lookup error of the first was returned.
C23_Witness ==
    /\ pc = "returned"
    /\ FailedNames = {1, 2}
    /\ first_failed = 2
    /\ result = Err(LookupError(1))
    /\ futures[2].out = Err(ConfError(2))

\* C24: an error find_instances_by_ip returned is the error of a strategy
\* all of whose predecessors, in push order, completed with Ok, and an error
\* find_instances returned after its lookup is the error of an address all
\* of whose predecessors completed with Ok; the error of a branch that has a
\* predecessor which failed or has not completed is not returned.
C24_ErrorAfterPredecessors ==
    /\ \A b \in ByIps :
        /\ b.out.tag = "Err" =>
            \E k \in DOMAIN b.futures :
                /\ b.futures[k].out = b.out
                /\ \A l \in 1..(k - 1) :
                    b.futures[l].st = "done" /\ b.futures[l].out.tag = "Ok"
        /\ \A k \in FailedStrategies(b) :
            (\E l \in 1..(k - 1) : b.futures[l].out.tag # "Ok")
                => b.out # b.futures[k].out
    /\ \A i \in DOMAIN futures :
        LET f == futures[i]
        IN  /\ (f.out.tag = "Err" /\ dns[i] = "resolved") =>
                \E j \in DOMAIN f.futures :
                    /\ f.futures[j].out = f.out
                    /\ \A l \in 1..(j - 1) :
                        f.futures[l].st = "done" /\ f.futures[l].out.tag = "Ok"
            /\ \A j \in DOMAIN f.futures :
                (f.futures[j].out.tag = "Err"
                    /\ \E l \in 1..(j - 1) : f.futures[l].out.tag # "Ok")
                    => f.out # f.futures[j].out

\* For an IPv4 address the third strategy failed after the first two had
\* found their instances, and its error was returned; for a name with two
\* addresses the second address failed after the first had succeeded.
C24_Witness ==
    /\ \E b \in ByIps :
        /\ b.address = X4
        /\ b.futures[1].out.tag = "Ok"
        /\ b.futures[2].out.tag = "Ok"
        /\ b.futures[3].out.tag = "Err"
        /\ b.out = b.futures[3].out
    /\ \E i \in DOMAIN futures :
        /\ Len(futures[i].futures) = 2
        /\ futures[i].futures[1].out.tag = "Ok"
        /\ futures[i].out.tag = "Err"
        /\ futures[i].out = futures[i].futures[2].out

\* C27: in find_instances_then of src/ec2.rs, once first_error is set no
\* step changes it, whether the output taken next is an error or a success;
\* the ids of the names that succeed afterwards are merged, and neither then
\* nor later is the continuation invoked, a request sent or a line printed.
C27_FirstErrorSticks ==
    [][ first_error # NoError =>
            /\ first_error' = first_error
            /\ all_instance_ids \subseteq all_instance_ids'
            /\ then_calls' = <<>>
            /\ api_calls' = <<>>
            /\ stdout' = <<>>
            /\ pc' \in {"draining", "returned"}
            /\ pc' = "returned" => result' = Err(first_error) ]_vars

\* The first name failed and its error was recorded; the second name
\* succeeded, its ids were merged, and the operation returned the error of
\* the first with nothing printed.
C27_Witness ==
    /\ pc = "returned"
    /\ Len(futures) = 2
    /\ first_error = futures[1].out.err
    /\ futures[1].out.tag = "Err"
    /\ futures[2].out.tag = "Ok"
    /\ all_instance_ids = futures[2].out.ids
    /\ all_instance_ids # {}
    /\ result = Err(first_error)
    /\ stdout = <<>>

\* ------------------------------------------------------------------------
\* Absent fields in pages
\* ------------------------------------------------------------------------
\* Page `page` holds an instance record whose id is x.
Holds(page, x) ==
    /\ page.reservations.some
    /\ \E r \in DOMAIN page.reservations.val :
        LET reservation == page.reservations.val[r]
        IN  /\ reservation.instances.some
            /\ \E n \in DOMAIN reservation.instances.val :
                reservation.instances.val[n].instance_id = Some(x)
\* A page that has an absent field somewhere.
HasAbsentField(page) ==
    \/ ~page.reservations.some
    \/ \E r \in DOMAIN page.reservations.val :
        \/ ~page.reservations.val[r].instances.some
        \/ \E n \in DOMAIN page.reservations.val[r].instances.val :
            ~page.reservations.val[r].instances.val[n].instance_id.some
\* The pages collector c was given: requested, and the fetch did not fail.
FetchedPages(c) ==
    { p \in DOMAIN InventoryPages(Collector(c).filter) :
        /\ CopiesIn(Fetch(c[1], c[2], c[3], p), fetches) > 0
        /\ Fetch(c[1], c[2], c[3], p) \notin failed_fetches
        /\ p < Collector(c).page \/ Collector(c).st = "done" }

\* C26: get_instance_ids_by_filter returns an error only when a fetch of its
\* own failed, whatever fields the pages lack; every id it holds or returns
\* is the id of an instance record of a page it fetched; and a stream whose
\* pages hold no id at all is collected into the empty set.
C26_AbsentFieldsAddNothing ==
    \A c \in Collectors :
        LET f == Collector(c)
            pages == InventoryPages(f.filter)
        IN  /\ f.out.tag = "Err" =>
                \E ff \in failed_fetches : <<ff.name, ff.addr, ff.strat>> = c
            /\ \A x \in f.results \cup f.out.ids :
                \E p \in FetchedPages(c) : Holds(pages[p], x)
            /\ (f.out.tag = "Ok" /\ \A p \in DOMAIN pages, x \in InstanceIds :
                                        ~Holds(pages[p], x))
                    => f.out = Ok({})

\* A page without reservation list followed by a page with two ids and an
\* instance without id: the collector returned the two ids.
C26_Witness ==
    \E c \in Collectors :
        /\ InventoryPages(Collector(c).filter) =
                << [reservations |-> None],
                   [reservations |-> Some(<<
                        [instances |-> Some(<< [instance_id |-> Some(I1)],
                                               [instance_id |-> None] >>)],
                        [instances |-> Some(<< [instance_id |-> Some(I2)] >>)] >>)] >>
        /\ \A p \in DOMAIN InventoryPages(Collector(c).filter) :
                HasAbsentField(InventoryPages(Collector(c).filter)[p])
        /\ Collector(c).out = Ok({I1, I2})

\* ------------------------------------------------------------------------
\* The two copies of the orchestrator
\* ------------------------------------------------------------------------
\* The other copy of find_instances_then, run on the per-name outputs of the
\* current state.
OtherCopy ==
    IF impl = "ec2" THEN main_find_instances_then(Orchestrator(futures))
    ELSE find_instances_then(Orchestrator(futures))

\* C22: when a run of one copy has finished, the other copy, given the same
\* per-name outputs, has the same error or none: without an error both pass
\* the same sorted vector to the continuation, with an error neither invokes
\* it and both errors are that of the same name.  The copy of src/main.rs
\* has then returned with no resolver behind the failed one still awaited
\* (they are done or dropped), where the copy of src/ec2.rs awaits them all.
C22_SameOutcome ==
    Finished =>
        LET other == OtherCopy
        IN  /\ other.first_error = first_error
            /\ first_error = NoError =>
                /\ other.phase = "drained"
                /\ then_calls = << SortedVec(other.all_instance_ids) >>
            /\ first_error # NoError =>
                /\ then_calls = <<>>
                /\ result = Err(other.first_error)
                /\ IF impl = "ec2"
                   THEN /\ other.phase = "failed"
                        /\ \A i \in DOMAIN futures : futures[i].st = "done"
                   ELSE \A i \in DOMAIN futures :
                            /\ futures[i].st \in {"done", "dropped"}
                            /\ i < next_outgoing => futures[i].out.tag = "Ok"

\* The copy of src/main.rs returned the error of the first name while the
\* second name was still being resolved; that resolver was dropped.
C22_Witness ==
    /\ impl = "main"
    /\ pc = "returned"
    /\ Len(futures) = 2
    /\ result = futures[1].out
    /\ futures[1].out.tag = "Err"
    /\ futures[2].st = "dropped"

\* ------------------------------------------------------------------------
\* Termination
\* ------------------------------------------------------------------------
\* C25: with finite page streams and awaits that complete, under fair
\* scheduling find_instances_then of src/ec2.rs finishes for every list of
\* names: it returns an error or invokes the continuation.
C25_EventuallyFinishes == <>Finished

\* Two names were resolved through queries of one and of two pages, four
\* page fetches in all, none failed, and the continuation was invoked.
C25_Witness ==
    /\ Len(names) = 2
    /\ pc = "then"
    /\ BagCardinality(fetches) = 4
    /\ failed_fetches = {}

\* ------------------------------------------------------------------------
\* Exit codes
\* ------------------------------------------------------------------------
\* What the command line asks for, read from the options alone.
HelpAsked ==
    \/ main_matches.parse_ok /\ main_matches.h
    \/ /\ main_matches = OperationGiven
       /\ op = "set-no-stop-before"
       /\ matches.parse_ok /\ matches.h
InvalidCommandLine ==
    \/ ~main_matches.parse_ok
    \/ ~main_matches.free
    \/ op \notin Ops
    \/ /\ op = "set-no-stop-before"
       /\ \/ ~matches.parse_ok
          \/ matches.d.present = matches.t.present
          \/ matches.d.present /\ ~matches.d.valid
          \/ matches.t.present /\ ~matches.t.valid
\* A lookup, a page fetch or the request of the continuation failed.
SomethingFailed ==
    \/ \E i \in DOMAIN dns : dns[i] = "failed"
    \/ failed_fetches # {}
    \/ api_calls # <<>> /\ result.tag = "Err"

\* The codes of the specification for a finished run.
ExpectedExitCode ==
    IF HelpAsked THEN 0
    ELSE IF InvalidCommandLine THEN 2
    ELSE IF SomethingFailed THEN 1
    ELSE 0

\* The runs that do not panic end with the expected code.
ExitCodesUnlessPanic ==
    pc = "returned" /\ result # Panicked => exit_code = Exited(ExpectedExitCode)

\* C21: the program of src/main.rs has no exit code before it ends, and
\* ends with 0 after help or success, with 2 when the command line is
\* invalid (options that do not parse, no operation, an unknown operation,
\* both or neither of --duration and --time, a duration or time that does
\* not parse), and with 1 when a lookup, a query or the request of the
\* continuation failed; it ends with 0 only after help, or when nothing
\* failed and the continuation ran to its end.
C21_ExitCodes ==
    /\ pc # "returned" => exit_code = NotExited
    /\ pc = "returned" =>
        exit_code = Exited(ExpectedExitCode)
    /\ exit_code = Exited(0) =>
        \/ HelpAsked
        \/ /\ result = Ok({})
           /\ ~SomethingFailed
           /\ Len(then_calls) = 1
           /\ op = "print" \/ Len(api_calls) = 1


====
